---- MODULE Spec2Model ----
(***************************************************************************)
(* Quote lifecycle of the 3D-printing quote engine: the quote store        *)
(* (quotes_store.py), the signer (security.py), the configuration          *)
(* fingerprint (config.py) and the create / get / refresh / lock request   *)
(* handlers (app.py).                                                      *)
(***************************************************************************)
EXTENDS Integers, Sequences, FiniteSets, TLC

\* ------------------------------------------------------------------------
\* Bounds of the model
\* ------------------------------------------------------------------------
\* last value of the clock (seconds)
MaxTime == 3
\* QUOTE_TTL_SECONDS of the environment, scaled down
QuoteTtl == 2
\* QUOTE_LOCK_TTL_SECONDS of the environment, scaled down
LockTtl == 1

\* ------------------------------------------------------------------------
\* Optional values: a missing key / None is <<>>, a present value v is <<v>>
\* ------------------------------------------------------------------------
None == <<>>
Some(v) == <<v>>
IsSome(o) == o # <<>>
Val(o) == o[1]

\* ------------------------------------------------------------------------
\* Configuration (config.py)
\* ------------------------------------------------------------------------
DefaultConfig ==
    [materials |-> {"pla"}, print_quality |-> {"standard"},
     printers |-> {"prusa_mk3s"}, enabled |-> {"prusa_mk3s"}, price_per_kg |-> 800]

\* the settings documents posted in this model: the default one, one with a
\* changed price and one with the printer disabled
SettingsInputs ==
    { DefaultConfig,
      [DefaultConfig EXCEPT !.price_per_kg = 900],
      [DefaultConfig EXCEPT !.enabled = {}] }

\* sha256 of the key-sorted JSON of config_data, first 16 hex digits: a
\* collision-free digest of the configuration document
get_config_version(c) == <<"sha256_16", c>>

get_material(c, m) == m \in c.materials
get_quality(c, q) == q \in c.print_quality
get_printer(c, p) == p \in c.printers
is_enabled_printer_any(c, p) == get_printer(c, p)

is_enabled_printer(c, p) == get_printer(c, p) /\ p \in c.enabled

\* ------------------------------------------------------------------------
\* Parameter validation (app.py validate_quote_params)
\* ------------------------------------------------------------------------
\* str.strip().lower() on the strings of this model
StripLower(s) ==
    CASE s = " PLA " -> "pla"
      [] OTHER -> s

ValidRaw ==
    [material |-> "pla", quality |-> "standard", printer |-> "prusa_mk3s",
     qty |-> 2, infill_density |-> 20]

\* the params callers post: valid, valid after normalisation, and one
\* violation of each rule
RawParams ==
    { ValidRaw,
      [ValidRaw EXCEPT !.material = " PLA "],
      [ValidRaw EXCEPT !.material = "nylon"],
      [ValidRaw EXCEPT !.quality = "ultra"],
      [ValidRaw EXCEPT !.printer = "ender3_v2"],
      [ValidRaw EXCEPT !.qty = 0],
      [ValidRaw EXCEPT !.infill_density = 101] }

validate_quote_params(c, p) ==
    LET material == StripLower(p.material)
        quality  == StripLower(p.quality)
        printer  == StripLower(p.printer)
    IN  IF p.qty < 1 THEN [ok |-> FALSE, error |-> "qty debe ser >= 1"]
        ELSE IF p.infill_density < 5 \/ p.infill_density > 100
             THEN [ok |-> FALSE, error |-> "infill_density debe estar entre 5 y 100"]
        ELSE IF material = "" \/ ~get_material(c, material)
             THEN [ok |-> FALSE, error |-> "material invalido"]
        ELSE IF quality = "" \/ ~get_quality(c, quality)
             THEN [ok |-> FALSE, error |-> "calidad invalida"]
        ELSE IF ~get_printer(c, printer) \/ ~is_enabled_printer(c, printer)
             THEN [ok |-> FALSE, error |-> "impresora invalida o deshabilitada"]
        ELSE [ok |-> TRUE,
              params |-> [material |-> material, quality |-> quality,
                          printer |-> printer, qty |-> p.qty,
                          infill_density |-> p.infill_density]]

\* ------------------------------------------------------------------------
\* Signer (security.py)
\* ------------------------------------------------------------------------
\* a JSON string held in a field that is otherwise null or a number
JsonStr(s) == <<"str", s>>

\* str() of a JSON scalar: None prints as "None", a number as its digits
\* and a string as itself
StrOpt(o) ==
    IF Len(o) = 0 THEN "None"
    ELSE IF Len(o) = 1 THEN ToString(o[1])
    ELSE o[2]

\* sha256 of the key-sorted JSON of a mapping: a collision-free digest
stable_digest(obj) == <<"sha256", obj>>

\* the empty string given as a signature
EmptySig == <<>>

\* HMAC-SHA256 over the "|"-joined fields: a collision-free tag of the
\* joined message, which is kept as the sequence of its parts
sign_quote(q) ==
    <<q.quoteId, q.status, StrOpt(q.price), q.currency, q.configVersion,
      ToString(q.expiresAtTs), stable_digest(q.params), stable_digest(q.computed)>>

\* a signature string with a non-ASCII character
NonAsciiSig == <<"non-ascii">>

\* hmac.compare_digest raises TypeError for a str with non-ASCII characters
compare_digest_raises(signature) == signature = NonAsciiSig

\* hmac.compare_digest(sign_quote(payload), signature or "")
verify_quote(q, signature) == sign_quote(q) = signature

\* ------------------------------------------------------------------------
\* Quote store (quotes_store.py)
\* ------------------------------------------------------------------------
HexDigits == {"0", "1", "2", "3", "4", "5", "6", "7", "8", "9",
              "a", "b", "c", "d", "e", "f"}
HexLen == 24

\* QUOTE_ID_RE.match(id) for ^q_[0-9a-f]{24}$ ; in Python "$" also matches
\* just before one trailing newline
QUOTE_ID_RE_match(id) ==
    LET body(n) == /\ Len(id) = n
                   /\ id[1] = "q" /\ id[2] = "_"
                   /\ \A i \in 3..(2 + HexLen) : id[i] \in HexDigits
    IN  \/ body(2 + HexLen)
        \/ Len(id) = 3 + HexLen /\ id[3 + HexLen] = "\n" /\ body(3 + HexLen)

\* "q_" + secrets.token_hex(12) for the token made of the hex digit d
new_id(d) == <<"q", "_">> \o [i \in 1..HexLen |-> d]

\* the identifiers new_id hands out in this model; the handlers never read
\* or write a quote other than the one they are called with
NewIds == { new_id("a") }
\* identifiers that are not "q_" and 24 hex digits: too short, a path with
\* separators, and a generated identifier followed by a newline
MalformedIds == { <<"q", "_", "0">>, <<".", ".", "/", "x">>, new_id("a") \o <<"\n">> }
RequestIds == NewIds \cup MalformedIds

VARIABLES
    store,   \* quotes directory: identifier -> stored quote document
    cfg,     \* config.config_data, the live configuration
    now,     \* the clock, in seconds
    last     \* the last request and its response

\* state of the finer-grained specifications below; constant under Spec
VARIABLES
    disk,      \* one quote directory: the entries quote.json.tmp and quote.json
    savers,    \* the position of each running _atomic_write_json call
    inflight,  \* a refresh and a lock request between their load and their save
    scenario,  \* how far the end-to-end scenario has been followed
    tamper,    \* a signed document, an altered copy and verify_quote's verdict
    damaged,   \* identifiers whose quote.json cannot be opened or parsed
    ADMIN_TOKEN,  \* the ADMIN_TOKEN environment variable of the deployment
    created    \* identifier -> the document create stored under it

aux == <<disk, savers, inflight, scenario, tamper, damaged, ADMIN_TOKEN, created>>

vars == <<store, cfg, now, last, disk, savers, inflight, scenario, tamper,
          damaged, ADMIN_TOKEN, created>>

load_unguarded(id) ==
    IF QUOTE_ID_RE_match(id) /\ id \in DOMAIN store THEN Some(store[id]) ELSE None

\* QuotesStore.load: None for a malformed id, for an absent record and when
\* open or json.load raises
load(id) ==
    IF QUOTE_ID_RE_match(id) /\ id \in DOMAIN store /\ id \notin damaged
    THEN Some(store[id])
    ELSE None

\* QuotesStore.load: the storage calls it makes (p.exists(), open and read)
load_calls(id) ==
    IF ~QUOTE_ID_RE_match(id) THEN {}
    ELSE IF id \notin DOMAIN store THEN {"exists"}
    ELSE {"exists", "read"}

save_purging(id, q) ==
    IF q.status = "expired"
    THEN [i \in DOMAIN store \ {id} |-> store[i]]
    ELSE [i \in DOMAIN store \cup {id} |-> IF i = id THEN q ELSE store[i]]

\* QuotesStore.save: the store after writing the document of id
save(id, q) == [i \in DOMAIN store \cup {id} |-> IF i = id THEN q ELSE store[i]]

is_expired_late(q, t) == t > q.expiresAtTs + 1

\* QuotesStore.is_expired at clock value t
is_expired(q, t) == t > q.expiresAtTs

\* ------------------------------------------------------------------------
\* Requests
\* ------------------------------------------------------------------------
EmptyComputed == [price |-> None, currency |-> None]

\* the "computed" mappings callers post
ComputedInputs ==
    { EmptyComputed,
      [price |-> Some(10), currency |-> Some("USD")] }

\* x or y of Python on an optional number (None and 0 are falsy) and on an
\* optional string (None and "" are falsy)
NumOr(o, d) == IF IsSome(o) /\ Val(o) # 0 THEN o ELSE d
StrOr(o, d) == IF IsSome(o) /\ Val(o) # "" THEN o ELSE d

\* the request handled last and its outcome: status code, returned quote,
\* the document loaded, whether save was called, the storage calls made, and
\* the inputs (signature, extendTtl, posted params)
Response(op, id, code, body, pre, wrote, sig, extend) ==
    [op |-> op, id |-> id, code |-> code, body |-> body, pre |-> pre,
     wrote |-> wrote, sig |-> sig, extend |-> extend, raw |-> None,
     io |-> (IF op \in {"get", "refresh", "lock"} THEN load_calls(id) ELSE {})
                \cup (IF wrote THEN {"write"} ELSE {})]

NoId == <<>>

create_quote_doc_nottl(id, params, computed, t, c) ==
    LET q == [quoteId |-> id,
              status |-> "estimated",
              createdAtTs |-> t,
              expiresAtTs |-> t,
              configVersion |-> get_config_version(c),
              params |-> params,
              computed |-> computed,
              price |-> NumOr(computed.price, None),
              currency |-> Val(StrOr(computed.currency, Some("EUR"))),
              refreshedAtTs |-> None,
              lockedAtTs |-> None,
              requiredConfigVersion |-> None,
              error |-> None,
              signature |-> EmptySig]
    IN  [q EXCEPT !.signature = sign_quote(q)]

\* create_quote: the document built and signed for validated params
create_quote_doc(id, params, computed, t, c) ==
    LET q == [quoteId |-> id,
              status |-> "estimated",
              createdAtTs |-> t,
              expiresAtTs |-> t + QuoteTtl,
              configVersion |-> get_config_version(c),
              params |-> params,
              computed |-> computed,
              price |-> NumOr(computed.price, None),
              currency |-> Val(StrOr(computed.currency, Some("EUR"))),
              refreshedAtTs |-> None,
              lockedAtTs |-> None,
              requiredConfigVersion |-> None,
              error |-> None,
              signature |-> EmptySig]
    IN  [q EXCEPT !.signature = sign_quote(q)]

get_quote_expire_keepsig(q) == [q EXCEPT !.status = "expired"]

\* get_quote: the document written when the loaded one has expired
get_quote_expire(q) ==
    LET q1 == [q EXCEPT !.status = "expired"]
    IN  [q1 EXCEPT !.signature = sign_quote(q1)]

refresh_quote_invalid_keepcomputed(q, msg) ==
    LET q1 == [q EXCEPT !.status = "recalc_required",
                        !.error = Some(msg)]
    IN  [q1 EXCEPT !.signature = sign_quote(q1)]

\* refresh_quote: stored params failed re-validation
refresh_quote_invalid(q, msg) ==
    LET q1 == [q EXCEPT !.status = "recalc_required",
                        !.error = Some(msg),
                        !.computed = EmptyComputed,
                        !.price = None]
    IN  [q1 EXCEPT !.signature = sign_quote(q1)]

refresh_quote_drift_adopt(q, params, current_version, t) ==
    LET q1 == [q EXCEPT !.params = params,
                        !.status = "recalc_required",
                        !.configVersion = current_version,
                        !.requiredConfigVersion = Some(current_version),
                        !.computed = EmptyComputed,
                        !.price = None,
                        !.refreshedAtTs = Some(t),
                        !.expiresAtTs = t + QuoteTtl]
    IN  [q1 EXCEPT !.signature = sign_quote(q1)]

refresh_quote_drift_keepprice(q, params, current_version, t) ==
    LET q1 == [q EXCEPT !.params = params,
                        !.status = "recalc_required",
                        !.requiredConfigVersion = Some(current_version),
                        !.refreshedAtTs = Some(t),
                        !.expiresAtTs = t + QuoteTtl]
    IN  [q1 EXCEPT !.signature = sign_quote(q1)]

\* refresh_quote: the configuration fingerprint changed
refresh_quote_drift(q, params, current_version, t) ==
    LET q1 == [q EXCEPT !.params = params,
                        !.status = "recalc_required",
                        !.requiredConfigVersion = Some(current_version),
                        !.computed = EmptyComputed,
                        !.price = None,
                        !.refreshedAtTs = Some(t),
                        !.expiresAtTs = t + QuoteTtl]
    IN  [q1 EXCEPT !.signature = sign_quote(q1)]

refresh_quote_renew_keepstatus(q, params, t) ==
    LET q1 == [q EXCEPT !.params = params,
                        !.refreshedAtTs = Some(t),
                        !.expiresAtTs = t + QuoteTtl]
    IN  [q1 EXCEPT !.signature = sign_quote(q1)]

\* refresh_quote: same fingerprint, quote expired
refresh_quote_renew(q, params, t) ==
    LET q1 == [q EXCEPT !.params = params,
                        !.status = "estimated",
                        !.refreshedAtTs = Some(t),
                        !.expiresAtTs = t + QuoteTtl]
    IN  [q1 EXCEPT !.signature = sign_quote(q1)]

refresh_quote_touch_always(q, params, extend_ttl, t) ==
    LET q1 == [q EXCEPT !.params = params,
                        !.expiresAtTs = t + QuoteTtl,
                        !.refreshedAtTs = Some(t)]
    IN  [q1 EXCEPT !.signature = sign_quote(q1)]

\* refresh_quote: same fingerprint, quote not expired
refresh_quote_touch(q, params, extend_ttl, t) ==
    LET q1 == [q EXCEPT !.params = params,
                        !.expiresAtTs = IF extend_ttl THEN t + QuoteTtl ELSE @,
                        !.refreshedAtTs = Some(t)]
    IN  [q1 EXCEPT !.signature = sign_quote(q1)]

\* lock_quote: the document written by a successful lock
lock_quote_doc(q, t) ==
    LET q1 == [q EXCEPT !.status = "locked",
                        !.lockedAtTs = Some(t),
                        !.expiresAtTs = t + LockTtl]
    IN  [q1 EXCEPT !.signature = sign_quote(q1)]

lock_required_version_stale(q) == q.configVersion

\* lock_quote: the version the live fingerprint is compared with
lock_required_version(q) ==
    IF IsSome(q.requiredConfigVersion) THEN Val(q.requiredConfigVersion)
    ELSE q.configVersion

lock_bad_signature_inverted(q, sig) ==
    IsSome(sig) /\ Val(sig) # EmptySig /\ verify_quote(q, Val(sig))

\* lock_quote: "provided_sig and not verify_quote(quote, provided_sig)"
lock_bad_signature(q, sig) ==
    IsSome(sig) /\ Val(sig) # EmptySig /\ ~verify_quote(q, Val(sig))

\* lock_quote: verify_quote is called and raises
lock_signature_raises(sig) ==
    IsSome(sig) /\ Val(sig) # EmptySig /\ compare_digest_raises(Val(sig))

\* ------------------------------------------------------------------------
\* Initial state and actions
\* ------------------------------------------------------------------------
NoStore == [i \in {} |-> i]

\* the writers of the save specification and the documents they save, each
\* written in two chunks
Writers == {"A", "B"}
DocOf(w) == << <<w, "first">>, <<w, "second">> >>
Documents == { DocOf(w) : w \in Writers }

\* files of the quote directory, and the marker of a missing directory entry
Inodes == {"inode1", "inode2"}
NoInode == "none"

\* no quote.json.tmp, no quote.json, no file allocated
DiskInit ==
    [tmp |-> NoInode, final |-> NoInode, free |-> Inodes,
     data |-> [i \in Inodes |-> <<>>]]

\* no save running; the reader has not read yet
SaversInit ==
    [writers |-> [w \in Writers |-> [pc |-> "idle", fd |-> NoInode, pos |-> 0]],
     reader |-> "idle"]
\* neither request has started; log is the order of their storage calls
InflightInit ==
    [refresh |-> [pc |-> "idle", loaded |-> None, code |-> 0, doc |-> None],
     lock |-> [pc |-> "idle", loaded |-> None, code |-> 0, doc |-> None],
     log |-> <<>>]

AuxInit ==
    /\ disk = DiskInit
    /\ savers = SaversInit
    /\ inflight = InflightInit
    /\ scenario = "start"
    /\ tamper = [orig |-> None, forged |-> None, verdict |-> None]
    /\ damaged = {}
    /\ created = NoStore
    /\ ADMIN_TOKEN = Some("secret")

Init ==
    /\ store = NoStore
    /\ cfg = DefaultConfig
    /\ now = 0
    /\ last = Response("start", NoId, 0, None, None, FALSE, None, FALSE)
    /\ AuxInit

\* the clock advances
Tick ==
    /\ now < MaxTime
    /\ now' = now + 1
    /\ last' = Response("tick", NoId, 0, None, None, FALSE, None, FALSE)
    /\ UNCHANGED <<store, cfg>>

\* POST /settings: config.config_data = new_settings
UpdateSettings ==
    \E c \in SettingsInputs :
        /\ c # cfg
        /\ cfg' = c
        /\ last' = Response("settings", NoId, 200, None, None, FALSE, None, FALSE)
        /\ UNCHANGED <<store, now>>

\* POST /api/quotes
CreateQuote ==
    \E raw \in RawParams, computed \in ComputedInputs :
        LET v == validate_quote_params(cfg, raw)
        IN  IF ~v.ok
            THEN /\ last' = [Response("create", NoId, 400, None, None, FALSE, None, FALSE)
                                 EXCEPT !.raw = Some(raw)]
                 /\ UNCHANGED <<store, cfg, now>>
            ELSE \E id \in NewIds \ DOMAIN store :
                 LET q == create_quote_doc(id, v.params, computed, now, cfg)
                 IN  /\ store' = save(id, q)
                     /\ last' = [Response("create", id, 201, Some(q), None, TRUE, None, FALSE)
                                     EXCEPT !.raw = Some(raw)]
                     /\ UNCHANGED <<cfg, now>>

GetQuote_eager ==
    \E id \in RequestIds :
        LET l == load(id)
        IN  IF ~IsSome(l)
            THEN /\ last' = Response("get", id, 404, None, None, FALSE, None, FALSE)
                 /\ UNCHANGED <<store, cfg, now>>
            ELSE LET q1 == get_quote_expire(Val(l))
                 IN  /\ store' = save(id, q1)
                     /\ last' = Response("get", id, 200, Some(q1), l, TRUE, None, FALSE)
                     /\ UNCHANGED <<cfg, now>>

\* GET /api/quotes/<quote_id>
GetQuote ==
    \E id \in RequestIds :
        LET l == load(id)
        IN  IF ~IsSome(l)
            THEN /\ last' = Response("get", id, 404, None, None, FALSE, None, FALSE)
                 /\ UNCHANGED <<store, cfg, now>>
            ELSE LET q == Val(l)
                 IN  IF is_expired(q, now)
                     THEN LET q1 == get_quote_expire(q)
                          IN  /\ store' = save(id, q1)
                              /\ last' = Response("get", id, 200, Some(q1), l, TRUE, None, FALSE)
                              /\ UNCHANGED <<cfg, now>>
                     ELSE /\ last' = Response("get", id, 200, l, l, FALSE, None, FALSE)
                          /\ UNCHANGED <<store, cfg, now>>

refresh_quote_outcome_nolockcheck(q, c, extend_ttl, t) ==
    LET v == validate_quote_params(c, q.params)
        current_version == get_config_version(c)
    IN  IF ~v.ok
        THEN [code |-> 200, doc |-> Some(refresh_quote_invalid(q, v.error))]
        ELSE IF q.configVersion # current_version
        THEN [code |-> 200,
              doc |-> Some(refresh_quote_drift(q, v.params, current_version, t))]
        ELSE IF is_expired(q, t)
        THEN [code |-> 200, doc |-> Some(refresh_quote_renew(q, v.params, t))]
        ELSE [code |-> 200,
              doc |-> Some(refresh_quote_touch(q, v.params, extend_ttl, t))]

\* refresh_quote: status code, document saved (None when nothing is saved)
refresh_quote_outcome(q, c, extend_ttl, t) ==
    IF q.status = "locked" THEN [code |-> 409, doc |-> None]
    ELSE LET v == validate_quote_params(c, q.params)
             current_version == get_config_version(c)
         IN  IF ~v.ok
             THEN [code |-> 200, doc |-> Some(refresh_quote_invalid(q, v.error))]
             ELSE IF q.configVersion # current_version
             THEN [code |-> 200,
                   doc |-> Some(refresh_quote_drift(q, v.params, current_version, t))]
             ELSE IF is_expired(q, t)
             THEN [code |-> 200, doc |-> Some(refresh_quote_renew(q, v.params, t))]
             ELSE [code |-> 200,
                   doc |-> Some(refresh_quote_touch(q, v.params, extend_ttl, t))]

\* POST /api/quotes/<quote_id>/refresh
RefreshQuote ==
    \E id \in RequestIds, extend_ttl \in BOOLEAN :
        LET l == load(id)
        IN  IF ~IsSome(l)
            THEN /\ last' = Response("refresh", id, 404, None, None, FALSE, None, extend_ttl)
                 /\ UNCHANGED <<store, cfg, now>>
            ELSE LET r == refresh_quote_outcome(Val(l), cfg, extend_ttl, now)
                 IN  IF IsSome(r.doc)
                     THEN /\ store' = save(id, Val(r.doc))
                          /\ last' = Response("refresh", id, r.code, r.doc, l, TRUE,
                                              None, extend_ttl)
                          /\ UNCHANGED <<cfg, now>>
                     ELSE /\ last' = Response("refresh", id, r.code, None, l, FALSE,
                                              None, extend_ttl)
                          /\ UNCHANGED <<store, cfg, now>>

lock_quote_outcome_configfirst(q, c, sig, t) ==
    IF is_expired(q, t) THEN [code |-> 410, doc |-> None]
    ELSE IF lock_required_version(q) # get_config_version(c)
    THEN [code |-> 409, doc |-> None]
    ELSE IF lock_signature_raises(sig) THEN [code |-> 500, doc |-> None]
    ELSE IF lock_bad_signature(q, sig) THEN [code |-> 400, doc |-> None]
    ELSE [code |-> 200, doc |-> Some(lock_quote_doc(q, t))]

\* lock_quote: status code, document saved (None when nothing is saved)
lock_quote_outcome(q, c, sig, t) ==
    IF is_expired(q, t) THEN [code |-> 410, doc |-> None]
    ELSE IF lock_signature_raises(sig) THEN [code |-> 500, doc |-> None]
    ELSE IF lock_bad_signature(q, sig) THEN [code |-> 400, doc |-> None]
    ELSE IF lock_required_version(q) # get_config_version(c)
    THEN [code |-> 409, doc |-> None]
    ELSE [code |-> 200, doc |-> Some(lock_quote_doc(q, t))]

\* the "signature" values callers of lock post for a stored quote: none, the
\* empty string, the stored signature, the signature of another document and
\* a string with a non-ASCII character
SignatureInputs(q) ==
    { None, Some(EmptySig), Some(q.signature),
      Some(sign_quote([q EXCEPT !.status = "expired"])), Some(NonAsciiSig) }

\* POST /api/quotes/<quote_id>/lock
LockQuote ==
    \E id \in RequestIds :
        LET l == load(id)
        IN  IF ~IsSome(l)
            THEN /\ last' = Response("lock", id, 404, None, None, FALSE, None, FALSE)
                 /\ UNCHANGED <<store, cfg, now>>
            ELSE \E sig \in SignatureInputs(Val(l)) :
                 LET r == lock_quote_outcome(Val(l), cfg, sig, now)
                 IN  IF IsSome(r.doc)
                     THEN /\ store' = save(id, Val(r.doc))
                          /\ last' = Response("lock", id, r.code, r.doc, l, TRUE, sig, FALSE)
                          /\ UNCHANGED <<cfg, now>>
                     ELSE /\ last' = Response("lock", id, r.code, None, l, FALSE, sig, FALSE)
                          /\ UNCHANGED <<store, cfg, now>>

Next ==
    \/ Tick /\ UNCHANGED aux
    \/ UpdateSettings /\ UNCHANGED aux
    \/ CreateQuote /\ UNCHANGED aux
    \/ GetQuote /\ UNCHANGED aux
    \/ RefreshQuote /\ UNCHANGED aux
    \/ LockQuote /\ UNCHANGED aux

Spec == Init /\ [][Next]_vars

\* ------------------------------------------------------------------------
\* The signer as a function of the document (security.py)
\* ------------------------------------------------------------------------
\* ------------------------------------------------------------------------
\* save and load of one quote directory, step by step (quotes_store.py)
\* ------------------------------------------------------------------------
\* bytes a write leaves unset when it lands beyond the end of the file
Hole == <<"", "hole">>

\* write(2) of one chunk at offset pos of a file
WriteAt(content, pos, chunk) ==
    IF pos < Len(content)
    THEN [content EXCEPT ![pos + 1] = chunk]
    ELSE content \o [i \in 1..(pos - Len(content)) |-> Hole] \o <<chunk>>

\* open(tmp, "w"): creates quote.json.tmp when it is missing, truncates the
\* file it names otherwise; the temporary name is the same for every caller
SaveOpen(w) ==
    /\ savers.writers[w].pc = "idle"
    /\ LET fresh == CHOOSE i \in disk.free : TRUE
           f == IF disk.tmp = NoInode THEN fresh ELSE disk.tmp
       IN  /\ disk' = [disk EXCEPT !.tmp = f, !.free = @ \ {f}, !.data[f] = <<>>]
           /\ savers' = [savers EXCEPT
                           !.writers[w] = [pc |-> "writing", fd |-> f, pos |-> 0]]
    /\ UNCHANGED <<store, cfg, now, last, inflight, scenario, tamper, damaged, ADMIN_TOKEN, created>>

\* json.dump(data, f): the next chunk goes to the open file at the
\* descriptor's offset; the with block closes the file after the last one
SaveWrite(w) ==
    LET s == savers.writers[w]
        doc == DocOf(w)
    IN  /\ s.pc = "writing"
        /\ disk' = [disk EXCEPT !.data[s.fd] = WriteAt(@, s.pos, doc[s.pos + 1])]
        /\ savers' = [savers EXCEPT
                        !.writers[w].pos = s.pos + 1,
                        !.writers[w].pc = IF s.pos + 1 = Len(doc) THEN "closed"
                                          ELSE "writing"]
        /\ UNCHANGED <<store, cfg, now, last, inflight, scenario, tamper, damaged, ADMIN_TOKEN, created>>

\* os.replace(tmp, path): renames whatever quote.json.tmp names now;
\* FileNotFoundError when the entry is gone
SaveReplace(w) ==
    /\ savers.writers[w].pc = "closed"
    /\ IF disk.tmp = NoInode
       THEN /\ savers' = [savers EXCEPT !.writers[w].pc = "failed"]
            /\ UNCHANGED disk
       ELSE /\ disk' = [disk EXCEPT !.final = disk.tmp, !.tmp = NoInode]
            /\ savers' = [savers EXCEPT !.writers[w].pc = "done"]
    /\ UNCHANGED <<store, cfg, now, last, inflight, scenario, tamper, damaged, ADMIN_TOKEN, created>>

\* the process running a save dies before its next step
SaveCrash(w) ==
    /\ savers.writers[w].pc \in {"writing", "closed"}
    /\ savers' = [savers EXCEPT !.writers[w].pc = "crashed"]
    /\ UNCHANGED <<disk, store, cfg, now, last, inflight, scenario, tamper, damaged, ADMIN_TOKEN, created>>

\* load: p.exists(), then json.load of quote.json, which fails on anything
\* but a whole document
LoadFile ==
    /\ savers' = [savers EXCEPT
                    !.reader = IF disk.final = NoInode THEN "absent"
                               ELSE IF disk.data[disk.final] \in Documents
                               THEN "document"
                               ELSE "partial"]
    /\ UNCHANGED <<disk, store, cfg, now, last, inflight, scenario, tamper, damaged, ADMIN_TOKEN, created>>

SaveInit ==
    /\ store = NoStore
    /\ cfg = DefaultConfig
    /\ now = 0
    /\ last = Response("start", NoId, 0, None, None, FALSE, None, FALSE)
    /\ AuxInit

SaveNext ==
    \/ \E w \in Writers : SaveOpen(w)
    \/ \E w \in Writers : SaveWrite(w)
    \/ \E w \in Writers : SaveReplace(w)
    \/ \E w \in Writers : SaveCrash(w)
    \/ LoadFile

SaveSpec == SaveInit /\ [][SaveNext]_vars

\* ------------------------------------------------------------------------
\* A refresh and a lock of one quote as load, decide, save (app.py)
\* ------------------------------------------------------------------------
RaceId == new_id("a")

refresh_snapshot_reread(loaded, current) == current

\* refresh_quote decides on the dict quotes_store.load returned at its
\* start, not on what the store holds when it saves
refresh_snapshot(loaded, current) == loaded

\* a quote has been created and stored
RaceInit ==
    \E computed \in ComputedInputs :
        LET q == create_quote_doc(RaceId, validate_quote_params(DefaultConfig, ValidRaw).params,
                                  computed, 0, DefaultConfig)
        IN  /\ store = [i \in {RaceId} |-> q]
            /\ cfg = DefaultConfig
            /\ now = 0
            /\ last = [Response("create", RaceId, 201, Some(q), None, TRUE, None, FALSE)
                          EXCEPT !.raw = Some(ValidRaw)]
            /\ AuxInit

\* refresh_quote: quote = quotes_store.load(quote_id)
RefreshLoad ==
    /\ inflight.refresh.pc = "idle"
    /\ IsSome(load(RaceId))
    /\ inflight' = [inflight EXCEPT !.refresh.pc = "loaded",
                                    !.refresh.loaded = load(RaceId),
                                    !.log = Append(@, "refresh_load")]
    /\ UNCHANGED <<store, cfg, now, last, disk, savers, scenario, tamper, damaged, ADMIN_TOKEN, created>>

\* refresh_quote from the locked check to quotes_store.save and the response
RefreshSave ==
    /\ inflight.refresh.pc = "loaded"
    /\ \E extend_ttl \in BOOLEAN :
         LET q == refresh_snapshot(Val(inflight.refresh.loaded), store[RaceId])
             r == refresh_quote_outcome(q, cfg, extend_ttl, now)
         IN  /\ store' = IF IsSome(r.doc) THEN save(RaceId, Val(r.doc)) ELSE store
             /\ inflight' = [inflight EXCEPT !.refresh.pc = "done",
                                             !.refresh.code = r.code,
                                             !.refresh.doc = r.doc,
                                             !.log = Append(@, "refresh_save")]
    /\ UNCHANGED <<cfg, now, last, disk, savers, scenario, tamper, damaged, ADMIN_TOKEN, created>>

\* lock_quote: quote = quotes_store.load(quote_id)
LockLoad ==
    /\ inflight.lock.pc = "idle"
    /\ IsSome(load(RaceId))
    /\ inflight' = [inflight EXCEPT !.lock.pc = "loaded",
                                    !.lock.loaded = load(RaceId),
                                    !.log = Append(@, "lock_load")]
    /\ UNCHANGED <<store, cfg, now, last, disk, savers, scenario, tamper, damaged, ADMIN_TOKEN, created>>

\* lock_quote from the expiry check to quotes_store.save and the response
LockSave ==
    /\ inflight.lock.pc = "loaded"
    /\ \E sig \in SignatureInputs(Val(inflight.lock.loaded)) :
         LET r == lock_quote_outcome(Val(inflight.lock.loaded), cfg, sig, now)
         IN  /\ store' = IF IsSome(r.doc) THEN save(RaceId, Val(r.doc)) ELSE store
             /\ inflight' = [inflight EXCEPT !.lock.pc = "done",
                                             !.lock.code = r.code,
                                             !.lock.doc = r.doc,
                                             !.log = Append(@, "lock_save")]
    /\ UNCHANGED <<cfg, now, last, disk, savers, scenario, tamper, damaged, ADMIN_TOKEN, created>>

RaceNext ==
    \/ Tick /\ UNCHANGED aux
    \/ UpdateSettings /\ UNCHANGED aux
    \/ RefreshLoad
    \/ RefreshSave
    \/ LockLoad
    \/ LockSave

RaceSpec == RaceInit /\ [][RaceNext]_vars

\* ------------------------------------------------------------------------
\* The requests of one client in sequence, the configuration left alone
\* ------------------------------------------------------------------------
\* positions in the sequence create, get once expired, refresh, lock,
\* refresh ("start", "created", "seen_expired", "renewed", "locked", "refused");
\* Abandoned once the requests made leave that sequence
Abandoned == "abandoned"

\* the position after the request recorded in l, made at time t from
\* position s
ScenarioStep(s, l, t) ==
    LET onStored == IsSome(l.pre)
    IN  IF l.op = "tick" THEN s
        ELSE IF s = "start" /\ l.op = "create"
        THEN IF l.code = 201 THEN "created" ELSE "start"
        ELSE IF s = "created" /\ l.op = "get" /\ onStored
                /\ t > Val(l.pre).expiresAtTs
        THEN "seen_expired"
        ELSE IF s = "seen_expired" /\ l.op = "refresh" /\ onStored
        THEN "renewed"
        ELSE IF s = "renewed" /\ l.op = "lock" /\ onStored
                /\ ~(t > Val(l.pre).expiresAtTs)
                /\ l.sig \in {None, Some(Val(l.pre).signature)}
        THEN "locked"
        ELSE IF s = "locked" /\ l.op = "refresh" /\ onStored
        THEN "refused"
        ELSE Abandoned

ScenarioInit ==
    /\ store = NoStore
    /\ cfg = DefaultConfig
    /\ now = 0
    /\ last = Response("start", NoId, 0, None, None, FALSE, None, FALSE)
    /\ disk = DiskInit
    /\ savers = SaversInit
    /\ inflight = InflightInit
    /\ tamper = [orig |-> None, forged |-> None, verdict |-> None]
    /\ damaged = {}
    /\ created = NoStore
    /\ ADMIN_TOKEN = Some("secret")
    /\ scenario = "start"

Followed == scenario' = ScenarioStep(scenario, last', now)

ScenarioNext ==
    \/ Tick /\ Followed /\ UNCHANGED <<disk, savers, inflight, tamper, damaged, ADMIN_TOKEN, created>>
    \/ CreateQuote /\ Followed /\ UNCHANGED <<disk, savers, inflight, tamper, damaged, ADMIN_TOKEN, created>>
    \/ GetQuote /\ Followed /\ UNCHANGED <<disk, savers, inflight, tamper, damaged, ADMIN_TOKEN, created>>
    \/ RefreshQuote /\ Followed /\ UNCHANGED <<disk, savers, inflight, tamper, damaged, ADMIN_TOKEN, created>>
    \/ LockQuote /\ Followed /\ UNCHANGED <<disk, savers, inflight, tamper, damaged, ADMIN_TOKEN, created>>

ScenarioSpec == ScenarioInit /\ [][ScenarioNext]_vars

\* ------------------------------------------------------------------------
\* Records that cannot be read back (quotes_store.py)
\* ------------------------------------------------------------------------
\* quote.json of a stored quote is truncated or made unreadable from outside
DamageRecord ==
    /\ \E id \in DOMAIN store \ damaged : damaged' = damaged \cup {id}
    /\ last' = Response("damage", NoId, 0, None, None, FALSE, None, FALSE)
    /\ UNCHANGED <<store, cfg, now, disk, savers, inflight, scenario, tamper,
                   ADMIN_TOKEN, created>>

\* a save replaces quote.json by a whole document
Rewritten ==
    /\ damaged' = damaged \ (IF last'.wrote THEN {last'.id} ELSE {})
    /\ UNCHANGED <<disk, savers, inflight, scenario, tamper, ADMIN_TOKEN, created>>

DamageNext ==
    \/ Tick /\ Rewritten
    \/ CreateQuote /\ Rewritten
    \/ GetQuote /\ Rewritten
    \/ RefreshQuote /\ Rewritten
    \/ LockQuote /\ Rewritten
    \/ DamageRecord

DamageSpec == Init /\ [][DamageNext]_vars

\* ------------------------------------------------------------------------
\* GET /api/quotes behind require_admin (app.py)
\* ------------------------------------------------------------------------
MaxLimit == 200
DefaultLimit == 50

\* ADMIN_TOKEN as deployments set it: unset, empty, a secret
AdminTokenInputs == {None, Some(""), Some("secret")}

\* the token a request carries in ?token=, X-Admin-Token or a bearer
\* Authorization header: none, the secret, another string
TokenInputs == {None, Some("secret"), Some("guess")}

\* the limit query argument: absent, numbers, a non-numeric string
LimitInputs == {None, Some(0), Some(10), Some(MaxLimit + 1), JsonStr("abc")}

\* require_admin: True when ADMIN_TOKEN is unset or empty, else
\* token == ADMIN_TOKEN
require_admin(admin_token, token) ==
    IF admin_token = None \/ admin_token = Some("") THEN TRUE
    ELSE token = admin_token

\* int(request.args.get("limit", 50)): None when int() raises ValueError
parse_limit(arg) ==
    IF arg = None THEN Some(DefaultLimit)
    ELSE IF Len(arg) = 1 THEN arg
    ELSE None

\* limit = max(1, min(200, limit))
clamp_limit(n) ==
    LET m == IF n < MaxLimit THEN n ELSE MaxLimit
    IN  IF m > 1 THEN m ELSE 1

\* list_quotes: 401 when require_admin refuses; past it every path ends in
\* the except clause (500): int() raises on a non-numeric limit, and
\* quotes_store.list raises AttributeError, QuotesStore having no list
list_quotes_outcome(admin_token, token, limit_arg) ==
    IF ~require_admin(admin_token, token) THEN [code |-> 401, items |-> None]
    ELSE IF parse_limit(limit_arg) = None THEN [code |-> 500, items |-> None]
    ELSE [code |-> 500, items |-> None]

\* GET /api/quotes
ListQuotes ==
    /\ \E token \in TokenInputs, limit_arg \in LimitInputs :
         LET r == list_quotes_outcome(ADMIN_TOKEN, token, limit_arg)
         IN  last' = [Response("list", NoId, r.code, r.items, None, FALSE, None, FALSE)
                        EXCEPT !.raw = Some([token |-> token, limit |-> limit_arg])]
    /\ UNCHANGED <<store, cfg, now, aux>>

AdminInit ==
    /\ store = NoStore
    /\ cfg = DefaultConfig
    /\ now = 0
    /\ last = Response("start", NoId, 0, None, None, FALSE, None, FALSE)
    /\ disk = DiskInit
    /\ savers = SaversInit
    /\ inflight = InflightInit
    /\ scenario = "start"
    /\ tamper = [orig |-> None, forged |-> None, verdict |-> None]
    /\ damaged = {}
    /\ created = NoStore
    /\ ADMIN_TOKEN \in AdminTokenInputs

AdminNext ==
    \/ Tick /\ UNCHANGED aux
    \/ CreateQuote /\ UNCHANGED aux
    \/ ListQuotes

AdminSpec == AdminInit /\ [][AdminNext]_vars

\* ------------------------------------------------------------------------
\* The requests of Spec, with the document of each create kept aside
\* ------------------------------------------------------------------------
\* create_quote answered 201: the document it saved is remembered
Remembered ==
    /\ created' = IF last'.op = "create" /\ last'.code = 201
                  THEN [i \in DOMAIN created \cup {last'.id} |->
                           IF i = last'.id THEN Val(last'.body) ELSE created[i]]
                  ELSE created
    /\ UNCHANGED <<disk, savers, inflight, scenario, tamper, damaged, ADMIN_TOKEN>>

HistoryNext ==
    \/ Tick /\ Remembered
    \/ UpdateSettings /\ Remembered
    \/ CreateQuote /\ Remembered
    \/ GetQuote /\ Remembered
    \/ RefreshQuote /\ Remembered
    \/ LockQuote /\ Remembered

HistorySpec == Init /\ [][HistoryNext]_vars

SignedFields ==
    {"quoteId", "status", "price", "currency", "configVersion", "expiresAtTs",
     "params", "computed"}

\* documents as create_quote signs and stores them
SignedDocs ==
    { create_quote_doc(id, validate_quote_params(c, ValidRaw).params, computed, t, c) :
        id \in NewIds, computed \in ComputedInputs, t \in 0..MaxTime,
        c \in {x \in SettingsInputs : validate_quote_params(x, ValidRaw).ok} }

\* other JSON values one signed field of a stored document can be given
FieldValues(q, f) ==
    CASE f = "quoteId" -> {new_id("a"), new_id("b")}
      [] f = "status" -> {"estimated", "expired", "recalc_required", "locked"}
      [] f = "price" -> {None, Some(10), Some(11), JsonStr("10"), JsonStr("None")}
      [] f = "currency" -> {"EUR", "USD", "None"}
      [] f = "configVersion" -> {get_config_version(c) : c \in SettingsInputs}
      [] f = "expiresAtTs" -> {q.expiresAtTs, q.expiresAtTs + 1}
      [] f = "params" -> {q.params, [q.params EXCEPT !.qty = @ + 1]}
      [] f = "computed" -> ComputedInputs

Tampered(q) ==
    UNION { { [q EXCEPT ![f] = v] : v \in {x \in FieldValues(q, f) : x # q[f]} } :
            f \in SignedFields }

SignInit ==
    /\ store = NoStore
    /\ cfg = DefaultConfig
    /\ now = 0
    /\ last = Response("start", NoId, 0, None, None, FALSE, None, FALSE)
    /\ disk = DiskInit
    /\ savers = SaversInit
    /\ inflight = InflightInit
    /\ scenario = "start"
    /\ damaged = {}
    /\ created = NoStore
    /\ ADMIN_TOKEN = Some("secret")
    /\ \E q \in SignedDocs : \E f \in Tampered(q) :
           tamper = [orig |-> Some(q), forged |-> Some(f), verdict |-> None]

\* verify_quote(payload, signature) on the altered document with the
\* signature of the original
VerifyTampered ==
    /\ tamper.verdict = None
    /\ tamper' = [tamper EXCEPT
                    !.verdict = Some(verify_quote(Val(tamper.forged),
                                                  Val(tamper.orig).signature))]
    /\ UNCHANGED <<store, cfg, now, last, disk, savers, inflight, scenario,
                   damaged, ADMIN_TOKEN, created>>

SignNext == VerifyTampered

SignSpec == SignInit /\ [][SignNext]_vars

\* ------------------------------------------------------------------------
\* Properties
\* ------------------------------------------------------------------------
\* the stored document the last request was about, before the request
Pre == Val(last.pre)
\* the last request found a stored document
OnStored(op) == last.op = op /\ IsSome(last.pre)
Stored == DOMAIN store

\* C1: every stored record carries the signature of its own signed fields:
\* verify_quote(record, record.signature) holds in every reachable state.
C1_SignatureIntegrity ==
    \A id \in Stored : verify_quote(store[id], store[id].signature)

\* a refresh under a changed configuration has rewritten the record
C1_Witness ==
    /\ OnStored("refresh") /\ last.wrote
    /\ store[last.id].status = "recalc_required"
    /\ store[last.id].signature # Pre.signature
    /\ verify_quote(store[last.id], store[last.id].signature)

\* C2: a stored status of locked is never changed by any request.
C2_LockedIsTerminal ==
    [][\A id \in Stored : store[id].status = "locked" => store'[id].status = "locked"]_vars

\* C3: once a lock has succeeded on a quote (lockedAtTs is stamped), no request
\* changes its params, computed or price.
C3_LockedTermsImmutable ==
    [][\A id \in Stored :
          IsSome(store[id].lockedAtTs) =>
              /\ store'[id].params = store[id].params
              /\ store'[id].computed = store[id].computed
              /\ store'[id].price = store[id].price]_vars

\* C4: a refresh of a record whose stored status is locked answers 409, writes
\* nothing and leaves the stored record as it was.
C4_RefreshLockedConflict ==
    (OnStored("refresh") /\ Pre.status = "locked") =>
        /\ last.code = 409
        /\ ~last.wrote
        /\ store[last.id] = Pre

\* a refresh was answered on a locked record under a changed configuration
C4_Witness ==
    /\ OnStored("refresh") /\ Pre.status = "locked"
    /\ last.code = 409
    /\ Pre.configVersion # get_config_version(cfg)

\* C5: a lock of a record whose stored status is already locked answers 409
\* and leaves the stored record (its expiresAtTs and lockedAtTs) as it was.
C5_RelockConflict ==
    (OnStored("lock") /\ Pre.status = "locked") =>
        /\ last.code = 409
        /\ store[last.id] = Pre

\* C6: every change of a stored status is one of estimated->recalc_required,
\* estimated->expired, estimated->locked, recalc_required->estimated,
\* expired->estimated.
C6_AllowedTransitions ==
    [][\A id \in Stored :
          store'[id].status # store[id].status =>
              <<store[id].status, store'[id].status>> \in
                  { <<"estimated", "recalc_required">>, <<"estimated", "expired">>,
                    <<"estimated", "locked">>, <<"recalc_required", "estimated">>,
                    <<"expired", "estimated">> }]_vars

\* C7: a get of a record past its expiresAtTs whose status is neither expired
\* nor locked returns it with status expired and stores it with status
\* expired, a signature over the new status and every other field unchanged.
C7_LazyExpiry ==
    (OnStored("get") /\ now > Pre.expiresAtTs /\ Pre.status \notin {"expired", "locked"}) =>
        /\ last.code = 200
        /\ IsSome(last.body) /\ Val(last.body).status = "expired"
        /\ store[last.id].status = "expired"
        /\ [store[last.id] EXCEPT !.signature = EmptySig]
               = [Pre EXCEPT !.status = "expired", !.signature = EmptySig]
        /\ store[last.id].signature = sign_quote([Pre EXCEPT !.status = "expired"])

\* a get has expired a recalc_required record
C7_Witness ==
    /\ OnStored("get") /\ now > Pre.expiresAtTs
    /\ Pre.status = "recalc_required"
    /\ store[last.id].status = "expired"

\* what C8 promises of the record stored by a refresh under a changed fingerprint
C8_Invalidated ==
    /\ last.code = 200
    /\ store[last.id].status = "recalc_required"
    /\ store[last.id].price = None
    /\ store[last.id].computed = EmptyComputed
    /\ store[last.id].requiredConfigVersion = Some(get_config_version(cfg))
    /\ store[last.id].expiresAtTs = now + QuoteTtl

\* the case of C8: a refresh of a record whose params validate and whose
\* configVersion differs from the live fingerprint
C8_Drift ==
    /\ OnStored("refresh")
    /\ validate_quote_params(cfg, Pre.params).ok
    /\ Pre.configVersion # get_config_version(cfg)

\* C8 as stated: every refresh under a changed fingerprint of a quote whose
\* params validate stores recalc_required, price null, computed empty,
\* requiredConfigVersion = live fingerprint, expiresAtTs = now + ttl, with 200.
C8_DriftInvalidates_Original == C8_Drift => C8_Invalidated

\* C8 as amended: the same for every quote whose stored status is not locked.
C8_DriftInvalidates == (C8_Drift /\ Pre.status # "locked") => C8_Invalidated

\* a refresh has invalidated a priced estimated quote
C8_Witness ==
    /\ C8_Drift /\ Pre.status = "estimated" /\ IsSome(Pre.price)
    /\ store[last.id].status = "recalc_required"
    /\ store[last.id].expiresAtTs > Pre.expiresAtTs

\* the case of C9: a lock of a non-expired record whose required version
\* (requiredConfigVersion if present, otherwise configVersion) differs from
\* the live fingerprint
C9_Stale ==
    /\ OnStored("lock")
    /\ ~(now > Pre.expiresAtTs)
    /\ (IF IsSome(Pre.requiredConfigVersion) THEN Val(Pre.requiredConfigVersion)
        ELSE Pre.configVersion) # get_config_version(cfg)

\* C9 as stated: such a lock answers 409 and leaves the record unchanged.
C9_LockStaleConfig_Original ==
    C9_Stale => (last.code = 409 /\ store[last.id] = Pre)

\* the supplied signature is absent, empty or the signature of the record
C9_SignaturePasses ==
    \/ last.sig = None
    \/ Val(last.sig) = EmptySig
    \/ Val(last.sig) = sign_quote(Pre)

\* C9 as amended: such a lock leaves the record unchanged and answers 409
\* when no signature, an empty one or the record's signature was supplied.
C9_LockStaleConfig ==
    C9_Stale => /\ store[last.id] = Pre
                /\ ~last.wrote
                /\ C9_SignaturePasses => last.code = 409

\* a lock with the record's signature was refused for a stale configuration,
\* the record asking for a version other than the live one
C9_Witness ==
    /\ C9_Stale /\ last.code = 409
    /\ last.sig = Some(Pre.signature)
    /\ IsSome(Pre.requiredConfigVersion)

\* the case of C10: a lock of a non-expired record with a supplied signature
\* that is not the signature of the stored record
C10_Mismatch ==
    /\ OnStored("lock")
    /\ ~(now > Pre.expiresAtTs)
    /\ IsSome(last.sig)
    /\ Val(last.sig) # sign_quote(Pre)

C11_ConfigMismatch ==
    (IF IsSome(Pre.requiredConfigVersion) THEN Val(Pre.requiredConfigVersion)
     ELSE Pre.configVersion) # get_config_version(cfg)

\* the outcome of the last lock is the first that applies of: 404 without a
\* loaded record, 410 past expiresAtTs, 500 when raises holds, 400 when
\* mismatch holds, 409 on a configuration mismatch; and a lock that fails
\* saves nothing
C11_Precedence(mismatch, raises) ==
    last.op = "lock" =>
        /\ ~IsSome(last.pre) => last.code = 404
        /\ IsSome(last.pre) =>
              /\ now > Pre.expiresAtTs => last.code = 410
              /\ (~(now > Pre.expiresAtTs) /\ raises) => last.code = 500
              /\ (~(now > Pre.expiresAtTs) /\ ~raises /\ mismatch) => last.code = 400
              /\ (~(now > Pre.expiresAtTs) /\ ~raises /\ ~mismatch /\ C11_ConfigMismatch)
                     => last.code = 409
        /\ last.code # 200 =>
              /\ ~last.wrote
              /\ "write" \notin last.io
              /\ load(last.id) = last.pre

C13_Invalid(raw, c) ==
    \/ StripLower(raw.material) \notin c.materials
    \/ StripLower(raw.quality) \notin c.print_quality
    \/ StripLower(raw.printer) \notin c.printers
    \/ StripLower(raw.printer) \notin c.enabled
    \/ raw.qty < 1
    \/ raw.infill_density < 5
    \/ raw.infill_density > 100

\* C12: a create with valid params answers 201 and adds exactly one record,
\* under an unused id, with status estimated, createdAtTs = now, expiresAtTs =
\* createdAtTs + ttl, configVersion = live fingerprint, params = the
\* normalised input and a signature that verifies.
C12_CreatePersists ==
    [][(last'.op = "create" /\ ~C13_Invalid(Val(last'.raw), cfg)) =>
          /\ last'.code = 201
          /\ last'.id \notin DOMAIN store
          /\ DOMAIN store' = DOMAIN store \cup {last'.id}
          /\ \A i \in DOMAIN store : store'[i] = store[i]
          /\ store'[last'.id].status = "estimated"
          /\ store'[last'.id].createdAtTs = now
          /\ store'[last'.id].expiresAtTs = store'[last'.id].createdAtTs + QuoteTtl
          /\ store'[last'.id].configVersion = get_config_version(cfg)
          /\ store'[last'.id].params =
                 [material |-> StripLower(Val(last'.raw).material),
                  quality |-> StripLower(Val(last'.raw).quality),
                  printer |-> StripLower(Val(last'.raw).printer),
                  qty |-> Val(last'.raw).qty,
                  infill_density |-> Val(last'.raw).infill_density]
          /\ verify_quote(store'[last'.id], store'[last'.id].signature)
          /\ last'.body = Some(store'[last'.id])]_vars

\* a create has stored params that needed normalisation
C12_Witness ==
    /\ last.op = "create" /\ last.code = 201
    /\ Val(last.raw).material = " PLA "
    /\ store[last.id].params.material = "pla"
    /\ store[last.id].status = "estimated"
    /\ now > 0

\* C13: a create writes a record if and only if validation passes; with a
\* material, quality or printer missing from the configuration, a disabled
\* printer, qty < 1 or infill density outside 5..100 it answers 400 and the
\* store is unchanged.
C13_CreateValidates ==
    [][last'.op = "create" =>
          IF C13_Invalid(Val(last'.raw), cfg)
          THEN last'.code = 400 /\ ~last'.wrote /\ store' = store
          ELSE last'.code = 201 /\ last'.wrote /\ store' # store]_vars

\* a create was refused for a printer that is configured but disabled
C13_Witness ==
    /\ last.op = "create" /\ last.code = 400
    /\ Val(last.raw) = ValidRaw
    /\ "prusa_mk3s" \in cfg.printers /\ "prusa_mk3s" \notin cfg.enabled
    /\ store = NoStore

\* id is exactly "q_" followed by 24 lowercase hexadecimal digits
C14_WellFormed(id) ==
    /\ Len(id) = 26
    /\ id[1] = "q" /\ id[2] = "_"
    /\ \A i \in 3..26 : id[i] \in HexDigits

\* C14: get, refresh and lock with a malformed identifier answer 404 and make
\* no storage call at all.
C14_MalformedNoStorage ==
    (last.op \in {"get", "refresh", "lock"} /\ ~C14_WellFormed(last.id)) =>
        (last.code = 404 /\ last.io = {})

\* C18: a refresh of a stored, non-locked quote whose stored params fail
\* validation against the live configuration answers 200 and stores the quote
\* with status recalc_required, computed empty, price null, the validation
\* error recorded and the signature recomputed; the configuration fingerprint
\* is not compared (no requiredConfigVersion is recorded, whatever the
\* fingerprint) and expiresAtTs is left as it was.
C18_RefreshInvalid ==
    (OnStored("refresh") /\ Pre.status # "locked"
        /\ ~validate_quote_params(cfg, Pre.params).ok) =>
        /\ last.code = 200
        /\ last.wrote
        /\ load(last.id) = last.body
        /\ LET q == Val(last.body)
           IN  /\ q.status = "recalc_required"
               /\ q.computed = EmptyComputed
               /\ q.price = None
               /\ q.error = Some(validate_quote_params(cfg, Pre.params).error)
               /\ q.signature = sign_quote(q)
               /\ q.expiresAtTs = Pre.expiresAtTs
               /\ q.requiredConfigVersion = Pre.requiredConfigVersion
               /\ q.configVersion = Pre.configVersion
               /\ q.params = Pre.params

\* a priced, estimated quote whose printer was disabled (so that the
\* fingerprint changed as well) has been refreshed
C18_Witness ==
    /\ OnStored("refresh")
    /\ Pre.status = "estimated"
    /\ IsSome(Pre.price)
    /\ ~validate_quote_params(cfg, Pre.params).ok
    /\ Pre.configVersion # get_config_version(cfg)
    /\ last.code = 200
    /\ Val(last.body).status = "recalc_required"
    /\ Val(last.body).price = None
    /\ Val(last.body).requiredConfigVersion = None
    /\ Val(last.body).expiresAtTs = Pre.expiresAtTs

\* C19: a refresh of a stored quote in status recalc_required whose params
\* validate and whose configVersion equals the live fingerprint answers 200
\* and stores the quote with status estimated, expired or not.
C19_RecalcRecovers ==
    (OnStored("refresh") /\ Pre.status = "recalc_required"
        /\ validate_quote_params(cfg, Pre.params).ok
        /\ Pre.configVersion = get_config_version(cfg)) =>
        /\ last.code = 200
        /\ IsSome(last.body)
        /\ Val(last.body).status = "estimated"
        /\ load(last.id) = last.body

\* C20: verify_quote rejects every document that differs from a signed
\* document in one signed field (quoteId, status, price, currency,
\* configVersion, expiresAtTs, params or computed) and is presented with the
\* signed document's signature.
C20_TamperEvident ==
    tamper.verdict = Some(TRUE) =>
        \A f \in SignedFields : Val(tamper.forged)[f] = Val(tamper.orig)[f]

\* C15: whatever the interleaving of the steps of two saves, of crashes and
\* of loads on one quote directory, quote.json is missing or holds one whole
\* document that was passed to save, and no load reads anything else.
C15_AtomicSave ==
    /\ disk.final = NoInode \/ disk.data[disk.final] \in { DocOf(w) : w \in Writers }
    /\ savers.reader # "partial"

\* the storage calls of the two requests came in the order: refresh loads,
\* lock saves, refresh saves
C16_Interleaved ==
    \E i, j, k \in 1..Len(inflight.log) :
        /\ i < j /\ j < k
        /\ inflight.log[i] = "refresh_load"
        /\ inflight.log[j] = "lock_save"
        /\ inflight.log[k] = "refresh_save"

\* C16: when a refresh loads the quote before a lock saves it and saves after
\* it, and the lock answered 200 with status locked, the refresh answers 200
\* too and the record stored in the end is the refresh's document, whose
\* status is not locked: the lock's write is lost.
C16_LostUpdate ==
    (C16_Interleaved /\ inflight.lock.code = 200) =>
        /\ Val(inflight.lock.doc).status = "locked"
        /\ inflight.refresh.code = 200
        /\ load(RaceId) = inflight.refresh.doc
        /\ Val(load(RaceId)).status # "locked"

\* the interleaving has happened
C16_Witness ==
    /\ C16_Interleaved
    /\ inflight.lock.code = 200
    /\ Val(inflight.lock.doc).status = "locked"
    /\ inflight.refresh.pc = "done"
    /\ load(RaceId) = inflight.refresh.doc
    /\ Val(load(RaceId)).status = "estimated"

\* C17: with the configuration left alone, a create with valid params
\* answers a quote with status estimated and expiresAtTs = createdAtTs +
\* QuoteTtl; a get after the clock has passed expiresAtTs answers status
\* expired; the refresh that follows answers status estimated with
\* expiresAtTs = now + QuoteTtl; the lock that follows answers status locked
\* with expiresAtTs = now + LockTtl; the refresh that follows answers 409.
C17_Scenario ==
    /\ (scenario = "created" /\ last.op = "create") =>
            /\ last.code = 201
            /\ Val(last.body).status = "estimated"
            /\ Val(last.body).expiresAtTs = Val(last.body).createdAtTs + QuoteTtl
    /\ (scenario = "seen_expired" /\ last.op = "get") =>
            /\ last.code = 200
            /\ Val(last.body).status = "expired"
    /\ (scenario = "renewed" /\ last.op = "refresh") =>
            /\ last.code = 200
            /\ Val(last.body).status = "estimated"
            /\ Val(last.body).expiresAtTs = now + QuoteTtl
    /\ (scenario = "locked" /\ last.op = "lock") =>
            /\ last.code = 200
            /\ Val(last.body).status = "locked"
            /\ Val(last.body).expiresAtTs = now + LockTtl
    /\ (scenario = "refused" /\ last.op = "refresh") => last.code = 409

\* the whole sequence has been run: the quote the last refresh found was
\* locked after having been renewed by the first refresh
C17_Witness ==
    /\ scenario = "refused"
    /\ last.op = "refresh"
    /\ last.code = 409
    /\ Pre.status = "locked"
    /\ IsSome(Pre.refreshedAtTs)
    /\ IsSome(Pre.lockedAtTs)
    /\ Val(Pre.lockedAtTs) > Pre.createdAtTs + QuoteTtl

\* C24: no request removes a stored record: every identifier stored before a
\* step is stored after it, and a get that finds the record past its expiry
\* leaves a record under the identifier.
C24_NeverDeleted ==
    [][/\ \A id \in DOMAIN store : id \in DOMAIN store'
       /\ (last'.op \in {"get", "refresh", "lock"} /\ IsSome(last'.pre)) =>
              last'.id \in DOMAIN store']_vars

\* a get has marked a stored quote expired and the quote is still stored
C24_Witness ==
    /\ OnStored("get")
    /\ now > Pre.expiresAtTs
    /\ Pre.status # "expired"
    /\ last.id \in DOMAIN store
    /\ store[last.id].status = "expired"

\* C25: every stored record has expiresAtTs > createdAtTs and, when
\* refreshedAtTs is set, expiresAtTs > refreshedAtTs.
C25_Timestamps ==
    \A id \in DOMAIN store :
        /\ store[id].expiresAtTs > store[id].createdAtTs
        /\ IsSome(store[id].refreshedAtTs) =>
               store[id].expiresAtTs > Val(store[id].refreshedAtTs)

\* C26: a refresh of a stored quote that is not locked, not expired, whose
\* params validate and whose configVersion is the live fingerprint answers
\* 200, sets refreshedAtTs to now, sets expiresAtTs to now + QuoteTtl when
\* extendTtl was requested and leaves it alone otherwise, and leaves status,
\* params, computed, price, configVersion and createdAtTs as they were.
C26_RefreshTouch ==
    (OnStored("refresh") /\ Pre.status # "locked" /\ ~(now > Pre.expiresAtTs)
        /\ validate_quote_params(cfg, Pre.params).ok
        /\ Pre.configVersion = get_config_version(cfg)) =>
        /\ last.code = 200
        /\ load(last.id) = last.body
        /\ LET q == Val(last.body)
           IN  /\ q.refreshedAtTs = Some(now)
               /\ q.expiresAtTs = IF last.extend THEN now + QuoteTtl
                                  ELSE Pre.expiresAtTs
               /\ q.status = Pre.status
               /\ q.params = Pre.params
               /\ q.computed = Pre.computed
               /\ q.price = Pre.price
               /\ q.configVersion = Pre.configVersion
               /\ q.createdAtTs = Pre.createdAtTs

\* a refresh without extendTtl, made after the creation instant, has left
\* the expiry of a priced quote where it was
C26_Witness ==
    /\ OnStored("refresh")
    /\ Pre.status = "estimated"
    /\ ~(now > Pre.expiresAtTs)
    /\ now > Pre.createdAtTs
    /\ validate_quote_params(cfg, Pre.params).ok
    /\ Pre.configVersion = get_config_version(cfg)
    /\ ~last.extend
    /\ IsSome(Pre.price)
    /\ Val(last.body).refreshedAtTs = Some(now)
    /\ Val(last.body).expiresAtTs = Pre.expiresAtTs
    /\ Val(last.body).expiresAtTs # now + QuoteTtl

\* C27: a get of a stored record with now <= expiresAtTs, and a get of a
\* stored record whose status is already expired, calls save not at all
\* and leaves the stored record as it was.
C27_GetReadOnly ==
    (OnStored("get") /\ (~(now > Pre.expiresAtTs) \/ Pre.status = "expired")) =>
        /\ ~last.wrote
        /\ "write" \notin last.io
        /\ load(last.id) = last.pre

\* C28: in every stored record requiredConfigVersion and error are present
\* only while the status is recalc_required.
C28_FieldPresence ==
    \A id \in DOMAIN store :
        store[id].status # "recalc_required" =>
            /\ store[id].requiredConfigVersion = None
            /\ store[id].error = None

\* C29: after a lock that answered 200 the quote's expiresAtTs is at most
\* what it was before the lock.
C29_LockShortens ==
    (OnStored("lock") /\ last.code = 200) =>
        Val(last.body).expiresAtTs <= Pre.expiresAtTs

\* the caller of the last list request presented the configured admin token
C21_Privileged ==
    /\ last.op = "list"
    /\ IsSome(ADMIN_TOKEN)
    /\ ADMIN_TOKEN # Some("")
    /\ Val(last.raw).token = ADMIN_TOKEN

\* C21: a list request of a privileged caller answers 200 with a list of
\* items no longer than the requested limit clamped to 1..MaxLimit.
C21_ListBounded ==
    C21_Privileged =>
        /\ last.code = 200
        /\ IsSome(last.body)
        /\ IsSome(parse_limit(Val(last.raw).limit))
        /\ Len(Val(last.body)) <= clamp_limit(Val(parse_limit(Val(last.raw).limit)))

\* C22: a list request of a caller that does not present the admin
\* credential answers 401 with no quote data, also where no admin token is
\* configured.
C22_ListUnauthorized ==
    (last.op = "list" /\ ~C21_Privileged) =>
        /\ last.code = 401
        /\ last.body = None

\* C23: load gives the not-found result for a well-formed identifier with
\* no stored record and for a stored record that cannot be read or parsed,
\* and get, refresh and lock then answer 404 and do not write.
C23_LoadNotFound ==
    (last.op \in {"get", "refresh", "lock"} /\ C14_WellFormed(last.id)
        /\ (last.id \notin DOMAIN store \/ last.id \in damaged)) =>
        /\ last.pre = None
        /\ last.code = 404
        /\ ~last.wrote
        /\ "write" \notin last.io

\* a refresh and a lock of a stored but unreadable record answered 404
C23_Witness ==
    /\ last.op \in {"refresh", "lock"}
    /\ last.id \in DOMAIN store
    /\ last.id \in damaged
    /\ last.code = 404
    /\ ~last.wrote

\* an identifier is q_ followed by 24 lowercase hexadecimal digits and
\* nothing else
C30_Exact(id) ==
    /\ Len(id) = HexLen + 2
    /\ id[1] = "q"
    /\ id[2] = "_"
    /\ \A i \in 3..Len(id) : id[i] \in HexDigits

\* C30: the store computes a path for an identifier exactly when it is q_
\* followed by 24 lowercase hexadecimal digits with nothing before or after,
\* and a record saved by create under a new identifier is what load returns.
C30_IdFormat ==
    /\ last.op \in {"get", "refresh", "lock"} =>
           (last.io # {} <=> C30_Exact(last.id))
    /\ (last.op = "create" /\ last.code = 201) =>
           /\ C30_Exact(last.id)
           /\ load(last.id) = last.body

\* C31: lock never answers 200 for a quote whose status is recalc_required
\* or whose computed and price were cleared, and every stored locked record
\* of a quote created with a price has that price and a non-empty computed.
C31_LockedPriced ==
    /\ (OnStored("lock") /\ last.code = 200) =>
           /\ Pre.status # "recalc_required"
           /\ IsSome(created[last.id].price) =>
                  (Pre.price = created[last.id].price /\ Pre.computed # EmptyComputed)
    /\ \A id \in DOMAIN store :
           (store[id].status = "locked" /\ IsSome(created[id].price)) =>
               /\ store[id].price = created[id].price
               /\ store[id].computed # EmptyComputed

\* C32: every stored record with status estimated of a quote created with a
\* price has the computed and price values supplied at creation.
C32_EstimatedPriced ==
    \A id \in DOMAIN store :
        (store[id].status = "estimated" /\ IsSome(created[id].price)) =>
            /\ store[id].price = created[id].price
            /\ store[id].computed = created[id].computed

\* C33: every stored record with status expired has now > expiresAtTs, and
\* a lock of a stored quote whose status is expired answers 410 and writes
\* nothing.
C33_ExpiredIsPast ==
    /\ \A id \in DOMAIN store :
           store[id].status = "expired" => now > store[id].expiresAtTs
    /\ (OnStored("lock") /\ Pre.status = "expired") =>
           /\ last.code = 410
           /\ ~last.wrote
           /\ load(last.id) = last.pre

\* a lock of a quote that a get had marked expired answered 410
C33_Witness ==
    /\ OnStored("lock")
    /\ Pre.status = "expired"
    /\ now > Pre.expiresAtTs
    /\ last.code = 410
    /\ store[last.id].status = "expired"

\* C34: no step changes the quoteId, createdAtTs or configVersion of a
\* stored quote, the record stored under an identifier has that identifier
\* as quoteId, and a refresh of a stored, non-locked quote whose
\* configVersion differs from the live fingerprint answers 200 and leaves
\* the quote in status recalc_required.
C34_IdentityWriteOnce ==
    [][/\ \A id \in DOMAIN store :
            /\ id \in DOMAIN store'
            /\ store'[id].quoteId = store[id].quoteId
            /\ store'[id].createdAtTs = store[id].createdAtTs
            /\ store'[id].configVersion = store[id].configVersion
       /\ \A id \in DOMAIN store' : store'[id].quoteId = id
       /\ (last'.op = "refresh" /\ IsSome(last'.pre)
              /\ Val(last'.pre).status # "locked"
              /\ Val(last'.pre).configVersion # get_config_version(cfg)) =>
              /\ last'.code = 200
              /\ store'[last'.id].status = "recalc_required"
              /\ store'[last'.id].configVersion = Val(last'.pre).configVersion]_vars

\* a quote already in recalc_required has been refreshed again under a
\* fingerprint other than its own and is still recalc_required
C34_Witness ==
    /\ OnStored("refresh")
    /\ Pre.status = "recalc_required"
    /\ IsSome(Pre.refreshedAtTs)
    /\ Pre.configVersion # get_config_version(cfg)
    /\ last.code = 200
    /\ store[last.id].status = "recalc_required"
    /\ store[last.id].configVersion = Pre.configVersion
    /\ store[last.id].createdAtTs = Pre.createdAtTs
    /\ store[last.id].quoteId = last.id

====
